---- MODULE Spec2Model ----
(***************************************************************************)
(* Model of hscontrol/policy/acls.go: the ACL policy compiler of           *)
(* headscale.  The compiler is a set of pure functions over a policy and   *)
(* a fleet of nodes; the two index loops over the growing rule lists       *)
(* (CompileFilterRules, CompileSSHPolicy) are modelled one iteration per   *)
(* action, everything else as operators.                                   *)
(*                                                                         *)
(* Representation.                                                         *)
(*  - A Go string that the code splits on ":" or tests with HasPrefix is   *)
(*    the sequence of its colon-separated tokens: "autogroup:self:22" is   *)
(*    <<"autogroup", "self", "22">>, "alice" is <<"alice">>.               *)
(*  - IP addresses are the numbers 0 .. 2^AddrBits - 1 of one family; an   *)
(*    IP set (netipx.IPSet) is a set of addresses, a prefix a record       *)
(*    [addr, bits].  Strings of addresses and prefixes ("ip2", "ip2/2")    *)
(*    hold no colon.                                                       *)
(*  - A Go pointer that may be nil is a sequence of length 0 or 1.         *)
(*  - A result with an error is a record with a field err; NoErr is nil.   *)
(*  - A value the code computes once and reads several times is the         *)
(*    argument of a local operator (LET result(x) == ... IN result(e)), so  *)
(*    that e is written, and evaluated, once.                               *)
(***************************************************************************)
EXTENDS Integers, Sequences, FiniteSets, TLC

VARIABLES
    op,         \* the entry point being run
    pc,         \* position in it: "generate", "filterStart", "filter", "sshStart",
                \* "ssh", "expand", "done"
    pol,        \* *ACLPolicy: <<>> is nil, <<p>> a policy
    nodes,      \* types.Nodes given to CompileFilterRules / ExpandAlias
    node,       \* *types.Node: the recipient of CompileSSHPolicy
    peers,      \* types.Nodes: the peers of CompileSSHPolicy
    alias,      \* the alias given to ExpandAlias
    acls,       \* CompileFilterRules: the working list of access rules
    index,      \* CompileFilterRules / CompileSSHPolicy: the loop index
    rules,      \* CompileFilterRules: the filter rules built so far
    sshs,       \* CompileSSHPolicy: the working list of SSH rules
    sshRules,   \* CompileSSHPolicy: the SSH rules built so far
    ret         \* what the entry point returned

vars == <<op, pc, pol, nodes, node, peers, alias, acls, index, rules, sshs, sshRules, ret>>

----------------------------------------------------------------------------
(* Bounds of the model. *)

\* width of an address in bits (32 or 128 in netip.Addr)
AddrBits == 2
\* nodes in a fleet
MaxNodes == 2
\* access rules, or SSH rules, in a policy
MaxRules == 2

----------------------------------------------------------------------------
(* Strings. *)

NoErr == "nil"

Range(s) == {s[i] : i \in 1..Len(s)}

\* pairs <<t, p>> of tokens of the model where p is a proper prefix of t
ProperTokenPrefixes == {<<"members", "member">>, <<"selfish", "self">>}

TokenHasPrefix(t, p) == p = "" \/ t = p \/ <<t, p>> \in ProperTokenPrefixes

\* strings.HasPrefix on token sequences
HasPrefix(s, p) ==
    /\ Len(s) >= Len(p)
    /\ \A i \in 1..(Len(p) - 1) : s[i] = p[i]
    /\ Len(p) > 0 => TokenHasPrefix(s[Len(p)], p[Len(p)])

\* util.StringOrPrefixListContains
StringOrPrefixListContains(ts, t) == \E i \in 1..Len(ts) : ts[i] = t

autogroupPrefix == <<"autogroup", "">>
autogroupInternet == <<"autogroup", "internet">>
autogroupSelf == <<"autogroup", "self">>
autogroupMember == <<"autogroup", "member">>
autogroupTagged == <<"autogroup", "tagged">>
autogroupNonRoot == <<"autogroup", "nonroot">>
autogroupDangerAll == <<"autogroup", "danger-all">>

isWildcard(str) == str = <<"*">>

isGroup(str) == HasPrefix(str, <<"group", "">>)

isTag(str) == HasPrefix(str, <<"tag", "">>)

isAutoGroup(str) == HasPrefix(str, autogroupPrefix)

----------------------------------------------------------------------------
(* IP sets: netip and netipx in miniature. *)

Addr == 0..(2^AddrBits - 1)

AllPrefixes == [addr : Addr, bits : 0..AddrBits]

PrefixSize(p) == 2^(AddrBits - p.bits)

\* the addresses of a prefix; the bits of addr beyond the mask do not count
PrefixRange(p) == {a \in Addr : a \div PrefixSize(p) = p.addr \div PrefixSize(p)}

\* netip.Prefix.Masked
Masked(p) == [addr |-> (p.addr \div PrefixSize(p)) * PrefixSize(p), bits |-> p.bits]

\* netip.Addr.String
AddrString(a) == "ip" \o ToString(a)

\* netip.Prefix.String
PrefixString(p) == AddrString(p.addr) \o "/" \o ToString(p.bits)

\* netip.ParseAddr of a token sequence: an address string holds no colon
ParseAddr(s) ==
    IF Len(s) = 1 /\ \E a \in Addr : AddrString(a) = s[1]
    THEN [ok |-> TRUE, addr |-> CHOOSE a \in Addr : AddrString(a) = s[1]]
    ELSE [ok |-> FALSE, addr |-> 0]

\* netip.ParsePrefix of a token sequence
ParsePrefix(s) ==
    IF Len(s) = 1 /\ \E p \in AllPrefixes : PrefixString(p) = s[1]
    THEN [ok |-> TRUE, prefix |-> CHOOSE p \in AllPrefixes : PrefixString(p) = s[1]]
    ELSE [ok |-> FALSE, prefix |-> [addr |-> 0, bits |-> 0]]

\* the canonical prefixes of an IP set: the aligned blocks inside it whose
\* enclosing block of twice the size is not inside it
MaximalPrefixes(set) ==
    {p \in AllPrefixes :
        /\ p = Masked(p)
        /\ PrefixRange(p) \subseteq set
        /\ p.bits > 0 =>
              ~(PrefixRange([addr |-> p.addr, bits |-> p.bits - 1]) \subseteq set)}

RECURSIVE SortedPrefixes(_)
SortedPrefixes(ps) ==
    IF ps = {} THEN <<>>
    ELSE LET first == CHOOSE p \in ps : \A q \in ps : p.addr <= q.addr
         IN  <<first>> \o SortedPrefixes(ps \ {first})

\* netipx.IPSet.Prefixes
Prefixes(set) == SortedPrefixes(MaximalPrefixes(set))

\* util.ParseIPSet("*", nil) and allIPs()
allIPs == Addr

\* theInternet(): everything but the private and the mesh ranges, which in
\* this address space are the lower half, where the nodes live
theInternet == {a \in Addr : a >= 2^(AddrBits - 1)}

----------------------------------------------------------------------------
(* Nodes (package types). *)

\* types.Node.IPs
NodeIPs(n) == Range(n.IPs)

\* types.Node.AppendToIPSet on every node of a list
IPsOf(ns) == UNION {NodeIPs(ns[i]) : i \in 1..Len(ns)}

\* types.Node.InIPSet
InIPSet(n, set) == \E a \in NodeIPs(n) : a \in set

\* types.Nodes.FilterByIP
FilterByIP(ns, ip) == SelectSeq(ns, LAMBDA n : ip \in NodeIPs(n))

\* filterNodesByUser
filterNodesByUser(ns, user) == SelectSeq(ns, LAMBDA n : n.User.Name = user)

----------------------------------------------------------------------------
(* Errors. *)

ErrInvalidAction == "ErrInvalidAction"
ErrInvalidGroup == "ErrInvalidGroup"
ErrInvalidTag == "ErrInvalidTag"
ErrInvalidPortFormat == "ErrInvalidPortFormat"
ErrWildcardIsNeeded == "ErrWildcardIsNeeded"
ErrUnknownAutogroup == "ErrUnknownAutogroup"
ErrAutogroupSelf == "ErrAutogroupSelf"
\* errors of strconv and time, and the unnamed error of an unknown SSH action
ErrSyntax == "strconv: invalid syntax"
ErrDuration == "time: invalid duration"
ErrUnknownAction == "unknown action"
\* a recursion that never returns: the Go runtime ends the process
StackOverflow == "fatal: stack overflow"

----------------------------------------------------------------------------
(* Owners of tags, members of groups. *)

\* util.NormalizeToFQDNRulesConfigFromViper: the user names of the model are
\* lower-case DNS labels, which the normalisation leaves as they are
NormalizeToFQDNRules(name) == [name |-> name, err |-> NoErr]

\* expandUsersFromGroup: the users of a group; a group in a group is an error
expandUsersFromGroup(p, group) ==
    IF group \notin DOMAIN p[1].Groups
    THEN [users |-> <<>>, err |-> ErrInvalidGroup]
    ELSE LET aclGroups == p[1].Groups[group]
         IN  IF \E i \in 1..Len(aclGroups) :
                    \/ isGroup(aclGroups[i])
                    \/ NormalizeToFQDNRules(aclGroups[i]).err # NoErr
             THEN [users |-> <<>>, err |-> ErrInvalidGroup]
             ELSE [users |-> [i \in 1..Len(aclGroups) |->
                                 NormalizeToFQDNRules(aclGroups[i]).name],
                   err |-> NoErr]

RECURSIVE ownersLoop(_, _)
\* the loop of expandOwnersFromTag over the owners of a tag
ownersLoop(p, ows) ==
    LET then(first, rest) ==
            IF rest.err # NoErr THEN rest
            ELSE [owners |-> first \o rest.owners, err |-> NoErr]
        result(owner, gs) ==
            IF isGroup(owner) /\ gs.err # NoErr THEN [owners |-> <<>>, err |-> gs.err]
            ELSE then(IF isGroup(owner) THEN gs.users ELSE <<owner>>,
                      ownersLoop(p, Tail(ows)))
    IN  IF ows = <<>> THEN [owners |-> <<>>, err |-> NoErr]
        ELSE result(Head(ows), expandUsersFromGroup(p, Head(ows)))

\* expandOwnersFromTag: the users that own a tag, groups flattened
expandOwnersFromTag(p, tag) ==
    IF p = <<>> THEN [owners |-> <<>>, err |-> ErrInvalidTag]
    ELSE IF tag \notin DOMAIN p[1].TagOwners
    THEN [owners |-> <<>>, err |-> ErrInvalidTag]
    ELSE ownersLoop(p, p[1].TagOwners[tag])

\* a node's Hostinfo.RequestTags; none when Hostinfo is nil
RequestTags(n) == IF n.Hostinfo = <<>> THEN <<>> ELSE n.Hostinfo[1].RequestTags

\* ACLPolicy.TagsOfNode: the valid and the invalid request tags of a node
\* (each built from a Go map: a set)
TagsOfNode(p, n) ==
    LET found(o) == /\ o.err # ErrInvalidTag
                    /\ \E i \in 1..Len(o.owners) : n.User.Name = o.owners[i]
        result(valid) == [valid |-> valid, invalid |-> Range(RequestTags(n)) \ valid]
    IN  result({t \in Range(RequestTags(n)) : found(expandOwnersFromTag(p, t))})

\* excludeCorrectlyTaggedNodes: the tags it collects are those of TagOwners
\* for which the list expandOwnersFromTag(pol, user) ++ [user] holds user
excludeCorrectlyTaggedNodes(p, ns, user) ==
    LET tags == {tag \in DOMAIN p[1].TagOwners :
                    LET owners == expandOwnersFromTag(p, user).owners
                        nsl == Append(owners, user)
                    IN  StringOrPrefixListContains(nsl, user)}
    IN  SelectSeq(ns, LAMBDA n :
            /\ n.Hostinfo # <<>>
            /\ ~(\E t \in Range(RequestTags(n)) : t \in tags)
            /\ Len(n.ForcedTags) = 0)

----------------------------------------------------------------------------
(* The alias resolver.  A result is [set, err]; expandIPsFromUser also says *)
(* whether it returned a nil set.                                           *)

\* expandIPsFromGroup
expandIPsFromGroup(p, group, ns) ==
    LET result(us) ==
            IF us.err # NoErr THEN [set |-> {}, err |-> us.err]
            ELSE [set |-> UNION {IPsOf(filterNodesByUser(ns, us.users[i])) :
                                     i \in 1..Len(us.users)},
                  err |-> NoErr]
    IN  result(expandUsersFromGroup(p, group))

\* an expansion of a tag that takes the request tag of any user's node
expandIPsFromTagOfAnyUser(p, tag, ns) ==
    LET requested ==
            IPsOf(SelectSeq(ns, LAMBDA n : StringOrPrefixListContains(RequestTags(n), tag)))
        result(forced, o) ==
            IF o.err # NoErr
            THEN IF o.err = ErrInvalidTag
                 THEN IF Len(Prefixes(forced)) = 0
                      THEN [set |-> forced, err |-> ErrInvalidTag]
                      ELSE [set |-> forced, err |-> NoErr]
                 ELSE [set |-> {}, err |-> o.err]
            ELSE [set |-> forced \cup requested, err |-> NoErr]
    IN  result(IPsOf(SelectSeq(ns, LAMBDA n : StringOrPrefixListContains(n.ForcedTags, tag))),
               expandOwnersFromTag(p, tag))

\* expandIPsFromTag
expandIPsFromTag(p, tag, ns) ==
    LET owned(owners) ==
            UNION {IPsOf(SelectSeq(filterNodesByUser(ns, owners[i]),
                       LAMBDA n : /\ n.Hostinfo # <<>>
                                  /\ StringOrPrefixListContains(RequestTags(n), tag))) :
                   i \in 1..Len(owners)}
        result(forced, o) ==
            IF o.err # NoErr
            THEN IF o.err = ErrInvalidTag
                 THEN IF Len(Prefixes(forced)) = 0
                      THEN [set |-> forced, err |-> ErrInvalidTag]
                      ELSE [set |-> forced, err |-> NoErr]
                 ELSE [set |-> {}, err |-> o.err]
            ELSE [set |-> forced \cup owned(o.owners), err |-> NoErr]
    IN  result(IPsOf(SelectSeq(ns, LAMBDA n : StringOrPrefixListContains(n.ForcedTags, tag))),
               expandOwnersFromTag(p, tag))

\* expandIPsFromUser
expandIPsFromUser(p, user, ns) ==
    LET result(filteredNodes) ==
            IF Len(filteredNodes) = 0
            THEN [isNil |-> TRUE, set |-> {}, err |-> NoErr]
            ELSE [isNil |-> FALSE, set |-> IPsOf(filteredNodes), err |-> NoErr]
    IN  result(excludeCorrectlyTaggedNodes(p, filterNodesByUser(ns, user), user))

\* expandIPsFromSingleIP
expandIPsFromSingleIP(ip, ns) ==
    [set |-> {ip} \cup IPsOf(FilterByIP(ns, ip)), err |-> NoErr]

\* expandIPsFromIPPrefix
expandIPsFromIPPrefix(prefix, ns) ==
    [set |-> PrefixRange(prefix)
               \cup IPsOf(SelectSeq(ns, LAMBDA n :
                       \E ip \in NodeIPs(n) : ip \in PrefixRange(prefix))),
     err |-> NoErr]

\* expandAutoGroup
expandAutoGroup(p, ag, ns) ==
    IF HasPrefix(ag, autogroupInternet) THEN [set |-> theInternet, err |-> NoErr]
    ELSE IF HasPrefix(ag, autogroupSelf)
    THEN IF Len(ns) # 0
         THEN LET currentNode == ns[Len(ns)]
              IN  [set |-> IPsOf(SelectSeq(ns, LAMBDA n : n.User.ID = currentNode.User.ID)),
                   err |-> NoErr]
         ELSE [set |-> {}, err |-> NoErr]
    ELSE IF HasPrefix(ag, autogroupMember)
    THEN [set |-> IPsOf(SelectSeq(ns, LAMBDA n :
                     /\ Len(n.ForcedTags) = 0
                     /\ TagsOfNode(p, n).valid = {})),
          err |-> NoErr]
    ELSE IF HasPrefix(ag, autogroupTagged)
    THEN [set |-> IPsOf(SelectSeq(ns, LAMBDA n :
                     \/ Len(n.ForcedTags) # 0
                     \/ TagsOfNode(p, n).valid # {})),
          err |-> NoErr]
    ELSE IF HasPrefix(ag, autogroupDangerAll) THEN [set |-> allIPs, err |-> NoErr]
    ELSE [set |-> {}, err |-> ErrUnknownAutogroup]

RECURSIVE expandAliasFrom(_, _, _, _)
\* ExpandAlias, depth host entries into its recursion.  A chain of host
\* entries longer than the hosts map has entries has come back to a host it
\* has been at, and goes on forever.
expandAliasFrom(p, ns, al, depth) ==
    LET literal(ip, prefix) ==
            IF ip.ok THEN expandIPsFromSingleIP(ip.addr, ns)
            ELSE IF prefix.ok THEN expandIPsFromIPPrefix(prefix.prefix, ns)
            ELSE [set |-> {}, err |-> NoErr]
        result(ips) ==
            IF ~ips.isNil THEN [set |-> ips.set, err |-> ips.err]
            ELSE IF al \in DOMAIN p[1].Hosts
            THEN IF depth >= Cardinality(DOMAIN p[1].Hosts)
                 THEN [set |-> {}, err |-> StackOverflow]
                 ELSE expandAliasFrom(p, ns, <<PrefixString(p[1].Hosts[al])>>, depth + 1)
            ELSE literal(ParseAddr(al), ParsePrefix(al))
    IN  IF isWildcard(al) THEN [set |-> allIPs, err |-> NoErr]
        ELSE IF isGroup(al) THEN expandIPsFromGroup(p, al, ns)
        ELSE IF isTag(al) THEN expandIPsFromTag(p, al, ns)
        ELSE IF isAutoGroup(al) THEN expandAutoGroup(p, al, ns)
        ELSE result(expandIPsFromUser(p, al, ns))

\* ACLPolicy.ExpandAlias
ExpandAlias(p, ns, al) == expandAliasFrom(p, ns, al, 0)

\* ACLPolicy.expandSource: the prefixes of the source's IP set, as strings
expandSource(p, src, ns) ==
    LET strings(ps) == [i \in 1..Len(ps) |-> PrefixString(ps[i])]
        result(ipSet) ==
            IF ipSet.err # NoErr THEN [prefixes |-> <<>>, err |-> ipSet.err]
            ELSE [prefixes |-> strings(Prefixes(ipSet.set)), err |-> NoErr]
    IN  result(ExpandAlias(p, ns, src))

----------------------------------------------------------------------------
(* Protocols, ports, destinations. *)

portRangeBegin == 0
portRangeEnd == 65535
expectedTokenItems == 2

protocolICMP == 1
protocolIGMP == 2
protocolIPv4 == 4
protocolTCP == 6
protocolEGP == 8
protocolIGP == 9
protocolUDP == 17
protocolGRE == 47
protocolESP == 50
protocolAH == 51
protocolIPv6ICMP == 58
protocolSCTP == 132

\* the decimal strings of the model with their values; any other string of
\* the model is no number
Decimal ==
    [s \in {"0", "1", "6", "17", "22", "47", "80", "90", "132", "443", "65535", "65536"} |->
        CASE s = "0" -> 0 [] s = "1" -> 1 [] s = "6" -> 6 [] s = "17" -> 17
          [] s = "22" -> 22 [] s = "47" -> 47 [] s = "80" -> 80 [] s = "90" -> 90
          [] s = "132" -> 132 [] s = "443" -> 443 [] s = "65535" -> 65535
          [] s = "65536" -> 65536]

\* strconv.Atoi
Atoi(s) ==
    IF s \in DOMAIN Decimal THEN [n |-> Decimal[s], err |-> NoErr]
    ELSE [n |-> 0, err |-> ErrSyntax]

\* strconv.ParseUint(s, 10, 16)
ParseUint16(s) ==
    IF s \in DOMAIN Decimal /\ Decimal[s] <= portRangeEnd
    THEN [n |-> Decimal[s], err |-> NoErr]
    ELSE [n |-> 0, err |-> ErrSyntax]

\* strings.Split(s, ",") and strings.Split(s, "-") of the port strings of the
\* model; a string not listed holds no separator
SplitComma(s) ==
    CASE s = "22,80" -> <<"22", "80">>
      [] s = "22,80-90" -> <<"22", "80-90">>
      [] s = "22," -> <<"22", "">>
      [] OTHER -> <<s>>

SplitDash(s) ==
    CASE s = "80-90" -> <<"80", "90">>
      [] s = "90-80" -> <<"90", "80">>
      [] s = "1-6-17" -> <<"1", "6", "17">>
      [] OTHER -> <<s>>

\* parseProtocol
parseProtocol(protocol) ==
    CASE protocol = "" -> [protocols |-> <<>>, isWildcard |-> FALSE, err |-> NoErr]
      [] protocol = "igmp" -> [protocols |-> <<protocolIGMP>>, isWildcard |-> TRUE, err |-> NoErr]
      [] protocol \in {"ipv4", "ip-in-ip"} ->
            [protocols |-> <<protocolIPv4>>, isWildcard |-> TRUE, err |-> NoErr]
      [] protocol = "tcp" -> [protocols |-> <<protocolTCP>>, isWildcard |-> FALSE, err |-> NoErr]
      [] protocol = "egp" -> [protocols |-> <<protocolEGP>>, isWildcard |-> TRUE, err |-> NoErr]
      [] protocol = "igp" -> [protocols |-> <<protocolIGP>>, isWildcard |-> TRUE, err |-> NoErr]
      [] protocol = "udp" -> [protocols |-> <<protocolUDP>>, isWildcard |-> FALSE, err |-> NoErr]
      [] protocol = "gre" -> [protocols |-> <<protocolGRE>>, isWildcard |-> TRUE, err |-> NoErr]
      [] protocol = "esp" -> [protocols |-> <<protocolESP>>, isWildcard |-> TRUE, err |-> NoErr]
      [] protocol = "ah" -> [protocols |-> <<protocolAH>>, isWildcard |-> TRUE, err |-> NoErr]
      [] protocol = "sctp" -> [protocols |-> <<protocolSCTP>>, isWildcard |-> FALSE, err |-> NoErr]
      [] protocol = "icmp" ->
            [protocols |-> <<protocolICMP, protocolIPv6ICMP>>, isWildcard |-> TRUE, err |-> NoErr]
      [] OTHER ->
            LET protocolNumber == Atoi(protocol)
            IN  IF protocolNumber.err # NoErr
                THEN [protocols |-> <<>>, isWildcard |-> FALSE, err |-> protocolNumber.err]
                ELSE [protocols |-> <<protocolNumber.n>>,
                      isWildcard |-> /\ protocolNumber.n # protocolTCP
                                     /\ protocolNumber.n # protocolUDP
                                     /\ protocolNumber.n # protocolSCTP,
                      err |-> NoErr]

\* one port string of expandPorts' loop: a port or a range
portRange(portStr) ==
    LET rang == SplitDash(portStr)
    IN  IF Len(rang) = 1
        THEN LET port == ParseUint16(rang[1])
             IN  IF port.err # NoErr THEN [range |-> <<>>, err |-> port.err]
                 ELSE [range |-> <<[First |-> port.n, Last |-> port.n]>>, err |-> NoErr]
        ELSE IF Len(rang) = expectedTokenItems
        THEN LET start == ParseUint16(rang[1])
                 last == ParseUint16(rang[2])
             IN  IF start.err # NoErr THEN [range |-> <<>>, err |-> start.err]
                 ELSE IF last.err # NoErr THEN [range |-> <<>>, err |-> last.err]
                 ELSE [range |-> <<[First |-> start.n, Last |-> last.n]>>, err |-> NoErr]
        ELSE [range |-> <<>>, err |-> ErrInvalidPortFormat]

RECURSIVE portsLoop(_)
\* expandPorts' loop over the comma-separated port strings
portsLoop(strs) ==
    IF strs = <<>> THEN [ports |-> <<>>, err |-> NoErr]
    ELSE LET first == portRange(Head(strs))
             rest == portsLoop(Tail(strs))
         IN  IF first.err # NoErr THEN [ports |-> <<>>, err |-> first.err]
             ELSE IF rest.err # NoErr THEN rest
             ELSE [ports |-> first.range \o rest.ports, err |-> NoErr]

\* expandPorts
expandPorts(portsStr, isWild) ==
    IF isWildcard(<<portsStr>>)
    THEN [ports |-> <<[First |-> portRangeBegin, Last |-> portRangeEnd]>>, err |-> NoErr]
    ELSE IF isWild THEN [ports |-> <<>>, err |-> ErrWildcardIsNeeded]
    ELSE portsLoop(SplitComma(portsStr))

\* the part of a one-token string before its "/", when it has one
BeforeSlash(s) ==
    IF Len(s) = 1 /\ \E pr \in AllPrefixes : PrefixString(pr) = s[1]
    THEN <<AddrString((CHOOSE pr \in AllPrefixes : PrefixString(pr) = s[1]).addr)>>
    ELSE s

\* parseDestination: dest is the sequence strings.Split(dest, ":")
parseDestination(dest) ==
    IF Len(dest) < expectedTokenItems \/ Len(dest) > 3
    THEN LET port == dest[Len(dest)]
             \* strings.TrimSuffix(dest, ":"+port): a dest without a colon is
             \* shorter than the suffix and stays whole
             maybeIPv6Str == IF Len(dest) = 1 THEN dest ELSE SubSeq(dest, 1, Len(dest) - 1)
         IN  IF ~ParseAddr(BeforeSlash(maybeIPv6Str)).ok
             THEN [alias |-> <<>>, port |-> "", err |-> ErrInvalidPortFormat]
             ELSE [alias |-> maybeIPv6Str, port |-> port, err |-> NoErr]
    ELSE IF Len(dest) = expectedTokenItems
    THEN [alias |-> <<dest[1]>>, port |-> dest[2], err |-> NoErr]
    ELSE [alias |-> <<dest[1], dest[2]>>, port |-> dest[3], err |-> NoErr]

----------------------------------------------------------------------------
(* CompileFilterRules: one iteration of its loop over acls. *)

\* tailcfg.FilterAllowAll
FilterAllowAll ==
    <<[SrcIPs |-> <<"*">>,
       DstPorts |-> <<[IP |-> "*", Ports |-> [First |-> 0, Last |-> 65535]]>>,
       IPProto |-> <<>>]>>

isSelfDst(dst) == HasPrefix(dst, autogroupSelf)

\* a split whose appended rule is the rule itself, sources and all
splitACLKeepsSources(acl, newDst) ==
    [Action |-> acl.Action,
     Protocol |-> "",
     Sources |-> acl.Sources,
     Destinations |-> acl.Destinations]

\* a split whose appended rule keeps all destinations of the rule
splitACLKeepsDestinations(acl, newDst) ==
    [Action |-> acl.Action,
     Protocol |-> "",
     Sources |-> <<autogroupSelf>>,
     Destinations |-> acl.Destinations]

\* the rule the split appends: the fields it does not set are zero
splitACL(acl, newDst) ==
    [Action |-> acl.Action,
     Protocol |-> "",
     Sources |-> <<autogroupSelf>>,
     Destinations |-> newDst]

RECURSIVE sourcesLoop(_, _, _, _, _)
\* the loop over acl.Sources from srcIndex on; st holds the locals it
\* changes: destinations, acls, srcIPs, and the error that ends it
sourcesLoop(p, ns, acl, srcIndex, st) ==
    LET next(st2) ==
            IF st2.err # NoErr THEN st2 ELSE sourcesLoop(p, ns, acl, srcIndex + 1, st2)
        expand(src, destinations, workACLs) ==
            LET result(srcs) ==
                    [destinations |-> destinations,
                     acls |-> workACLs,
                     srcIPs |-> st.srcIPs \o srcs.prefixes,
                     err |-> srcs.err]
            IN  result(expandSource(p, src, ns))
        split(src, oldDst, newDst) ==
            IF ~HasPrefix(src, autogroupMember) THEN expand(src, st.destinations, st.acls)
            ELSE IF Len(oldDst) = 0 THEN expand(autogroupSelf, st.destinations, st.acls)
            ELSE IF Len(newDst) # 0
            THEN expand(src, oldDst, Append(st.acls, splitACL(acl, newDst)))
            ELSE expand(src, st.destinations, st.acls)
    IN  IF srcIndex > Len(acl.Sources) THEN st
        ELSE next(split(acl.Sources[srcIndex],
                        SelectSeq(st.destinations, LAMBDA dst : ~isSelfDst(dst)),
                        SelectSeq(st.destinations, isSelfDst)))

\* the NetPortRanges of one destination: its prefixes times its ports
netPortRanges(prefixes, ports) ==
    [k \in 1..(Len(prefixes) * Len(ports)) |->
        [IP |-> PrefixString(prefixes[((k - 1) \div Len(ports)) + 1]),
         Ports |-> ports[((k - 1) % Len(ports)) + 1]]]

\* the test that guards autogroup:self as a destination
selfMisused(sources) ==
    \/ Len(sources) # 1
    \/ (sources[1] # autogroupSelf /\ sources[1] # autogroupMember)

\* one destination of the loop over destinations
destination(p, ns, acl, dest, isWild) ==
    LET cross(expanded, ports) ==
            IF ports.err # NoErr THEN [dests |-> <<>>, err |-> ports.err]
            ELSE [dests |-> netPortRanges(Prefixes(expanded.set), ports.ports),
                  err |-> NoErr]
        expand(d, expanded) ==
            IF expanded.err # NoErr THEN [dests |-> <<>>, err |-> expanded.err]
            ELSE cross(expanded, expandPorts(d.port, isWild))
        result(d) ==
            IF d.err # NoErr THEN [dests |-> <<>>, err |-> d.err]
            ELSE IF HasPrefix(d.alias, autogroupSelf) /\ selfMisused(acl.Sources)
            THEN [dests |-> <<>>, err |-> ErrAutogroupSelf]
            ELSE expand(d, ExpandAlias(p, ns, d.alias))
    IN  result(parseDestination(dest))

RECURSIVE destinationsLoop(_, _, _, _, _)
\* the loop over destinations: destPorts, or the first error
destinationsLoop(p, ns, acl, destinations, isWild) ==
    LET then(first, rest) ==
            IF rest.err # NoErr THEN rest
            ELSE [destPorts |-> first.dests \o rest.destPorts, err |-> NoErr]
        result(first) ==
            IF first.err # NoErr THEN [destPorts |-> <<>>, err |-> first.err]
            ELSE then(first, destinationsLoop(p, ns, acl, Tail(destinations), isWild))
    IN  IF destinations = <<>> THEN [destPorts |-> <<>>, err |-> NoErr]
        ELSE result(destination(p, ns, acl, Head(destinations), isWild))

\* the body of the loop of CompileFilterRules for acls[index]: the working
\* list after it, the filter rule it appends, or its error
compileACL(p, ns, workACLs, idx) ==
    LET none == [SrcIPs |-> <<>>, DstPorts |-> <<>>, IPProto |-> <<>>]
        emit(srcd, proto, dsts) ==
            IF dsts.err # NoErr THEN [acls |-> srcd.acls, rule |-> none, err |-> dsts.err]
            ELSE [acls |-> srcd.acls,
                  rule |-> [SrcIPs |-> srcd.srcIPs,
                            DstPorts |-> dsts.destPorts,
                            IPProto |-> proto.protocols],
                  err |-> NoErr]
        dests(acl, srcd, proto) ==
            IF proto.err # NoErr THEN [acls |-> srcd.acls, rule |-> none, err |-> proto.err]
            ELSE emit(srcd, proto,
                      destinationsLoop(p, ns, acl, srcd.destinations, proto.isWildcard))
        sources(acl, srcd) ==
            IF srcd.err # NoErr THEN [acls |-> srcd.acls, rule |-> none, err |-> srcd.err]
            ELSE dests(acl, srcd, parseProtocol(acl.Protocol))
        result(acl) ==
            IF acl.Action # "accept"
            THEN [acls |-> workACLs, rule |-> none, err |-> ErrInvalidAction]
            ELSE sources(acl, sourcesLoop(p, ns, acl, 1,
                                  [destinations |-> acl.Destinations, acls |-> workACLs,
                                   srcIPs |-> <<>>, err |-> NoErr]))
    IN  result(workACLs[idx + 1])

----------------------------------------------------------------------------
(* CompileSSHPolicy: one iteration of its loop over sshs. *)

acceptAction ==
    [Message |-> "", Reject |-> FALSE, Accept |-> TRUE, SessionDuration |-> 0,
     AllowAgentForwarding |-> FALSE, HoldAndDelegate |-> "",
     AllowLocalPortForwarding |-> TRUE]

rejectAction ==
    [Message |-> "", Reject |-> TRUE, Accept |-> FALSE, SessionDuration |-> 0,
     AllowAgentForwarding |-> FALSE, HoldAndDelegate |-> "",
     AllowLocalPortForwarding |-> FALSE]

\* time.ParseDuration of the duration strings of the model, in seconds
ParseDuration(duration) ==
    CASE duration = "12h" -> [d |-> 43200, err |-> NoErr]
      [] duration = "30m" -> [d |-> 1800, err |-> NoErr]
      [] OTHER -> [d |-> 0, err |-> ErrDuration]

\* sshCheckAction
sshCheckAction(duration) ==
    LET sessionLength == ParseDuration(duration)
    IN  IF sessionLength.err # NoErr
        THEN [action |-> rejectAction, err |-> sessionLength.err]
        ELSE [action |-> [acceptAction EXCEPT !.SessionDuration = sessionLength.d],
              err |-> NoErr]

\* an SSHPrincipal with its fields zero
noPrincipal == [NodeIP |-> "", UserLogin |-> <<"">>, Any |-> FALSE]

RECURSIVE sshDestLoop(_, _, _, _)
\* the loop over the destinations of an SSH rule: their IP set, or the
\* first error
sshDestLoop(p, ns, sshACL, destinations) ==
    LET then(expanded, rest) ==
            IF rest.err # NoErr THEN rest
            ELSE [set |-> expanded.set \cup rest.set, err |-> NoErr]
        result(expanded) ==
            IF expanded.err # NoErr THEN [set |-> {}, err |-> expanded.err]
            ELSE then(expanded, sshDestLoop(p, ns, sshACL, Tail(destinations)))
    IN  IF destinations = <<>> THEN [set |-> {}, err |-> NoErr]
        ELSE IF HasPrefix(Head(destinations), autogroupSelf) /\ selfMisused(sshACL.Sources)
        THEN [set |-> {}, err |-> ErrAutogroupSelf]
        ELSE result(ExpandAlias(p, ns, Head(destinations)))

\* a switch whose default keeps the reject action and goes on
sshActionDefaultRejects(sshACL) ==
    CASE sshACL.Action = "accept" -> [action |-> acceptAction, err |-> NoErr]
      [] sshACL.Action = "check" -> sshCheckAction(sshACL.CheckPeriod)
      [] OTHER -> [action |-> rejectAction, err |-> NoErr]

\* the action of an SSH rule
sshAction(sshACL) ==
    CASE sshACL.Action = "accept" -> [action |-> acceptAction, err |-> NoErr]
      [] sshACL.Action = "check" -> sshCheckAction(sshACL.CheckPeriod)
      [] OTHER -> [action |-> rejectAction, err |-> ErrUnknownAction]

\* the rule the split appends
splitSSH(sshACL, newDst) ==
    [Action |-> sshACL.Action,
     Sources |-> <<autogroupSelf>>,
     Destinations |-> newDst,
     Users |-> sshACL.Users,
     CheckPeriod |-> sshACL.CheckPeriod]

RECURSIVE principalsLoop(_, _, _, _, _)
\* the loop over sshACL.Sources from innerIndex on; st holds the locals it
\* changes: destinations, sshs, principals, and the error that ends it
principalsLoop(p, ps, sshACL, innerIndex, st) ==
    LET next(st2) ==
            IF st2.err # NoErr THEN st2
            ELSE principalsLoop(p, ps, sshACL, innerIndex + 1, st2)
        nodeIPs(srcPrefixes) ==
            [i \in 1..Len(srcPrefixes) |->
                [noPrincipal EXCEPT !.NodeIP = AddrString(srcPrefixes[i].addr)]]
        expand(rawSrc, destinations, workSSHs) ==
            LET result(expandedSrcs) ==
                    [destinations |-> destinations,
                     sshs |-> workSSHs,
                     principals |->
                         IF expandedSrcs.err # NoErr THEN st.principals
                         ELSE st.principals \o nodeIPs(Prefixes(expandedSrcs.set)),
                     err |-> expandedSrcs.err]
            IN  result(ExpandAlias(p, ps, rawSrc))
        split(rawSrc, oldDst, newDst) ==
            IF ~HasPrefix(rawSrc, autogroupMember)
            THEN expand(rawSrc, st.destinations, st.sshs)
            ELSE IF Len(oldDst) = 0 THEN expand(autogroupSelf, st.destinations, st.sshs)
            ELSE IF Len(newDst) # 0
            THEN expand(rawSrc, oldDst, Append(st.sshs, splitSSH(sshACL, newDst)))
            ELSE expand(rawSrc, st.destinations, st.sshs)
        group(users) ==
            IF users.err # NoErr THEN [st EXCEPT !.err = users.err]
            ELSE [st EXCEPT !.principals = @ \o
                     [i \in 1..Len(users.users) |->
                         [noPrincipal EXCEPT !.UserLogin = users.users[i]]]]
        principal(rawSrc) ==
            IF isWildcard(rawSrc)
            THEN [st EXCEPT !.principals = Append(@, [noPrincipal EXCEPT !.Any = TRUE])]
            ELSE IF isGroup(rawSrc) THEN group(expandUsersFromGroup(p, rawSrc))
            ELSE split(rawSrc,
                       SelectSeq(st.destinations, LAMBDA dst : ~isSelfDst(dst)),
                       SelectSeq(st.destinations, isSelfDst))
    IN  IF innerIndex > Len(sshACL.Sources) THEN st
        ELSE next(principal(sshACL.Sources[innerIndex]))

\* a test that lets every rule apply to the recipient
sshRuleAppliesAlways(n, destSet) == TRUE

\* the recipient is in the destination set of the rule
sshRuleApplies(n, destSet) == InIPSet(n, destSet)

\* the body of the loop of CompileSSHPolicy for sshs[index]: the working
\* list after it, whether it appends an SSH rule and which, or its error
compileSSH(p, n, ps, workSSHs, idx) ==
    LET none == [Principals |-> <<>>, SSHUsers |-> [u \in {} |-> "="],
                 Action |-> rejectAction]
        emit(sshACL, act, pr) ==
            IF pr.err # NoErr
            THEN [sshs |-> pr.sshs, emits |-> FALSE, rule |-> none, err |-> pr.err]
            ELSE [sshs |-> pr.sshs,
                  emits |-> TRUE,
                  rule |-> [Principals |-> pr.principals,
                            SSHUsers |-> [u \in Range(sshACL.Users) |-> "="],
                            Action |-> act.action],
                  err |-> NoErr]
        principals(sshACL, act) ==
            IF act.err # NoErr
            THEN [sshs |-> workSSHs, emits |-> FALSE, rule |-> none, err |-> act.err]
            ELSE emit(sshACL, act,
                      principalsLoop(p, ps, sshACL, 1,
                          [destinations |-> sshACL.Destinations, sshs |-> workSSHs,
                           principals |-> <<>>, err |-> NoErr]))
        applies(sshACL, dest) ==
            IF dest.err # NoErr
            THEN [sshs |-> workSSHs, emits |-> FALSE, rule |-> none, err |-> dest.err]
            ELSE IF ~sshRuleApplies(n, dest.set)
            THEN [sshs |-> workSSHs, emits |-> FALSE, rule |-> none, err |-> NoErr]
            ELSE principals(sshACL, sshAction(sshACL))
        result(sshACL) ==
            applies(sshACL, sshDestLoop(p, Append(ps, n), sshACL, sshACL.Destinations))
    IN  result(workSSHs[idx + 1])

----------------------------------------------------------------------------
(* ReduceFilterRules. *)

ErrParseIPSet == "ParseIPSet: invalid"

\* util.ParseIPSet(arg, nil): "*", a prefix or an address
ParseIPSet(arg) ==
    LET result(prefix, ip) ==
            IF prefix.ok THEN [set |-> PrefixRange(prefix.prefix), err |-> NoErr]
            ELSE IF ip.ok THEN [set |-> {ip.addr}, err |-> NoErr]
            ELSE [set |-> {}, err |-> ErrParseIPSet]
    IN  IF arg = "*" THEN [set |-> allIPs, err |-> NoErr]
        ELSE result(ParsePrefix(<<arg>>), ParseAddr(<<arg>>))

\* netipx.IPSet.OverlapsPrefix
OverlapsPrefix(set, prefix) == PrefixRange(prefix) \cap set # {}

\* the body of DEST_LOOP without the routes: a destination is kept when it
\* parses and holds an address of the node
destRelevantWithoutRoutes(n, dest) ==
    LET result(expanded) == expanded.err = NoErr /\ InIPSet(n, expanded.set)
    IN  result(ParseIPSet(dest.IP))

\* the body of DEST_LOOP: whether the destination is kept
destRelevant(n, dest) ==
    LET routes(expanded) ==
            IF n.Hostinfo # <<>>
            THEN IF Len(n.Hostinfo[1].RoutableIPs) > 0
                 THEN \E i \in 1..Len(n.Hostinfo[1].RoutableIPs) :
                          OverlapsPrefix(expanded.set, n.Hostinfo[1].RoutableIPs[i])
                 ELSE FALSE
            ELSE FALSE
        result(expanded) ==
            IF expanded.err # NoErr THEN FALSE
            ELSE IF InIPSet(n, expanded.set) THEN TRUE
            ELSE routes(expanded)
    IN  result(ParseIPSet(dest.IP))

RECURSIVE destLoop(_, _)
\* DEST_LOOP: the destinations of a rule that are kept, in their order
destLoop(n, dstPorts) ==
    IF dstPorts = <<>> THEN <<>>
    ELSE IF destRelevant(n, Head(dstPorts))
    THEN <<Head(dstPorts)>> \o destLoop(n, Tail(dstPorts))
    ELSE destLoop(n, Tail(dstPorts))

RECURSIVE reduceSharedDests(_, _, _)
\* a loop over the rules whose dests is one list for all rules
reduceSharedDests(n, rs, dests) ==
    LET result(rule, all) ==
            IF Len(all) > 0
            THEN <<[SrcIPs |-> rule.SrcIPs, DstPorts |-> all, IPProto |-> rule.IPProto]>>
                     \o reduceSharedDests(n, Tail(rs), all)
            ELSE reduceSharedDests(n, Tail(rs), all)
    IN  IF rs = <<>> THEN <<>>
        ELSE result(Head(rs), dests \o destLoop(n, Head(rs).DstPorts))

\* a ReduceFilterRules that declares dests outside its loop over the rules
ReduceFilterRulesSharedDests(n, rs) == reduceSharedDests(n, rs, <<>>)

RECURSIVE ReduceFilterRules(_, _)
\* ReduceFilterRules: the rules with the destinations that are kept; a rule
\* without any is left out
ReduceFilterRules(n, rs) ==
    LET result(rule, dests, rest) ==
            IF Len(dests) > 0
            THEN <<[SrcIPs |-> rule.SrcIPs, DstPorts |-> dests, IPProto |-> rule.IPProto]>>
                     \o rest
            ELSE rest
    IN  IF rs = <<>> THEN <<>>
        ELSE result(Head(rs), destLoop(n, Head(rs).DstPorts),
                    ReduceFilterRules(n, Tail(rs)))

----------------------------------------------------------------------------
(* The entry points as actions. *)

\* the results of an entry point: filter rules, SSH policy (a pointer), IP
\* set, error
noReturn == [rules |-> <<>>, ssh |-> <<>>, set |-> {}, err |-> NoErr]

\* a CompileFilterRules whose nil policy gives no rules
FilterBeginNilDeniesAll ==
    /\ pc = "filterStart"
    /\ IF pol = <<>>
       THEN /\ ret' = noReturn
            /\ pc' = "done"
            /\ UNCHANGED <<acls, index, rules>>
       ELSE /\ acls' = pol[1].ACLs
            /\ index' = 0
            /\ rules' = <<>>
            /\ pc' = "filter"
            /\ ret' = ret
    /\ UNCHANGED <<op, pol, nodes, node, peers, alias, sshs, sshRules>>

\* CompileFilterRules up to its loop: a nil policy allows all
FilterBegin ==
    /\ pc = "filterStart"
    /\ IF pol = <<>>
       THEN /\ ret' = [noReturn EXCEPT !.rules = FilterAllowAll]
            /\ pc' = "done"
            /\ UNCHANGED <<acls, index, rules>>
       ELSE /\ acls' = pol[1].ACLs
            /\ index' = 0
            /\ rules' = <<>>
            /\ pc' = "filter"
            /\ ret' = ret
    /\ UNCHANGED <<op, pol, nodes, node, peers, alias, sshs, sshRules>>

\* one iteration of the loop of CompileFilterRules; an error returns.
\* GenerateFilterAndSSHRulesForTests returns the error with empty rules and
\* an empty SSH policy.
FilterLoop ==
    /\ pc = "filter"
    /\ index < Len(acls)
    /\ \E it \in {compileACL(pol, nodes, acls, index)} :
           IF it.err # NoErr
           THEN /\ ret' = IF op = "GenerateFilterAndSSHRulesForTests"
                          THEN [noReturn EXCEPT !.ssh = <<[Rules |-> <<>>]>>, !.err = it.err]
                          ELSE [noReturn EXCEPT !.err = it.err]
                /\ pc' = "done"
                /\ UNCHANGED <<acls, index, rules>>
           ELSE /\ acls' = it.acls
                /\ rules' = Append(rules, it.rule)
                /\ index' = index + 1
                /\ UNCHANGED <<pc, ret>>
    /\ UNCHANGED <<op, pol, nodes, node, peers, alias, sshs, sshRules>>

\* the loop of CompileFilterRules is over: return the rules; in
\* GenerateFilterAndSSHRulesForTests, go on to CompileSSHPolicy
FilterReturn ==
    /\ pc = "filter"
    /\ index >= Len(acls)
    /\ ret' = [ret EXCEPT !.rules = rules]
    /\ pc' = IF op = "GenerateFilterAndSSHRulesForTests" THEN "sshStart" ELSE "done"
    /\ UNCHANGED <<op, pol, nodes, node, peers, alias, acls, index, rules, sshs, sshRules>>

\* CompileSSHPolicy up to its loop: a nil policy gives a nil SSH policy
SSHBegin ==
    /\ pc = "sshStart"
    /\ IF pol = <<>>
       THEN /\ pc' = "done"
            /\ UNCHANGED <<sshs, index, sshRules>>
       ELSE /\ sshs' = pol[1].SSHs
            /\ index' = 0
            /\ sshRules' = <<>>
            /\ pc' = "ssh"
    /\ UNCHANGED <<op, pol, nodes, node, peers, alias, acls, rules, ret>>

\* one iteration of the loop of CompileSSHPolicy; an error returns
SSHLoop ==
    /\ pc = "ssh"
    /\ index < Len(sshs)
    /\ \E it \in {compileSSH(pol, node, peers, sshs, index)} :
           IF it.err # NoErr
           THEN /\ ret' = IF op = "GenerateFilterAndSSHRulesForTests"
                          THEN [noReturn EXCEPT !.ssh = <<[Rules |-> <<>>]>>, !.err = it.err]
                          ELSE [noReturn EXCEPT !.err = it.err]
                /\ pc' = "done"
                /\ UNCHANGED <<sshs, index, sshRules>>
           ELSE /\ sshs' = it.sshs
                /\ sshRules' = IF it.emits THEN Append(sshRules, it.rule) ELSE sshRules
                /\ index' = index + 1
                /\ UNCHANGED <<pc, ret>>
    /\ UNCHANGED <<op, pol, nodes, node, peers, alias, acls, rules>>

\* the loop of CompileSSHPolicy is over: return the SSH policy
SSHReturn ==
    /\ pc = "ssh"
    /\ index >= Len(sshs)
    /\ ret' = [ret EXCEPT !.ssh = <<[Rules |-> sshRules]>>]
    /\ pc' = "done"
    /\ UNCHANGED <<op, pol, nodes, node, peers, alias, acls, index, rules, sshs, sshRules>>

\* GenerateFilterAndSSHRulesForTests: allow all without a policy; else
\* CompileFilterRules(append(peers, node)), then CompileSSHPolicy(node, peers)
GenerateBegin ==
    /\ pc = "generate"
    /\ IF pol = <<>>
       THEN /\ ret' = [noReturn EXCEPT !.rules = FilterAllowAll, !.ssh = <<[Rules |-> <<>>]>>]
            /\ pc' = "done"
            /\ UNCHANGED nodes
       ELSE /\ nodes' = Append(peers, node)
            /\ pc' = "filterStart"
            /\ ret' = ret
    /\ UNCHANGED <<op, pol, node, peers, alias, acls, index, rules, sshs, sshRules>>

\* ExpandAlias as an entry point
ExpandAliasCall ==
    /\ pc = "expand"
    /\ \E expanded \in {ExpandAlias(pol, nodes, alias)} :
           ret' = [noReturn EXCEPT !.set = expanded.set, !.err = expanded.err]
    /\ pc' = "done"
    /\ UNCHANGED <<op, pol, nodes, node, peers, alias, acls, index, rules, sshs, sshRules>>

\* ReduceFilterRules as an entry point
ReduceCall ==
    /\ pc = "reduce"
    /\ ret' = [noReturn EXCEPT !.rules = ReduceFilterRules(node, rules)]
    /\ pc' = "reduced"
    /\ UNCHANGED <<op, pol, nodes, node, peers, alias, acls, index, rules, sshs, sshRules>>

\* the caller gives the rules it got back to ReduceFilterRules, for the same
\* node
ReduceAgain ==
    /\ pc = "reduced"
    /\ rules' = ret.rules
    /\ ret' = [noReturn EXCEPT !.rules = ReduceFilterRules(node, ret.rules)]
    /\ pc' = "done"
    /\ UNCHANGED <<op, pol, nodes, node, peers, alias, acls, index, sshs, sshRules>>

----------------------------------------------------------------------------
(* Inputs. *)

\* the sequences over S of length 1 to n
SeqsUpTo(S, n) == UNION {[1..k -> S] : k \in 1..n}

\* the sequences of length 1 to n with one rule of Focus at any place and
\* rules of Context at the others
RuleLists(Focus, Context, n) ==
    UNION {{[i \in 1..kj[1] |-> IF i = kj[2] THEN f ELSE c[i]] :
                f \in Focus, c \in [1..kj[1] -> Context]} :
           kj \in {<<k, j>> \in (1..n) \X (1..n) : j <= k}}

alice == [ID |-> 1, Name |-> <<"alice">>]
bob == [ID |-> 2, Name |-> <<"bob">>]
Users == {alice, bob}

tagA == <<"tag", "a">>
tagB == <<"tag", "b">>
groupDev == <<"group", "dev">>

\* node number i has the address i - 1
Node(i, user, hostinfo, forcedTags) ==
    [ID |-> i, User |-> user, IPs |-> <<i - 1>>, Hostinfo |-> hostinfo,
     ForcedTags |-> forcedTags]

Hostinfo(requestTags) == <<[RequestTags |-> requestTags, RoutableIPs |-> <<>>]>>

\* an empty map
NoMap == [k \in {} |-> <<>>]

Policy(groups, tagOwners, hosts, aclList, sshList) ==
    <<[Groups |-> groups, TagOwners |-> tagOwners, Hosts |-> hosts,
       ACLs |-> aclList, SSHs |-> sshList]>>

\* the fleets of MaxNodes untagged nodes, each of any user
PlainFleets ==
    {[i \in 1..MaxNodes |-> Node(i, u[i], Hostinfo(<<>>), <<>>)] : u \in [1..MaxNodes -> Users]}

\* the fleets of MaxNodes nodes, each of any user, without Hostinfo or with
\* no, a declared or another request tag, with or without a forced tag
TaggedFleets ==
    {[i \in 1..MaxNodes |-> Node(i, c[i].user, c[i].hostinfo, c[i].forcedTags)] :
        c \in [1..MaxNodes ->
                  [user : Users,
                   hostinfo : {<<>>, Hostinfo(<<>>), Hostinfo(<<tagA>>), Hostinfo(<<tagB>>)},
                   forcedTags : {<<>>, <<tagA>>}]]}

\* a fleet without its node number r
Without(fleet, r) == [i \in 1..(Len(fleet) - 1) |-> IF i < r THEN fleet[i] ELSE fleet[i + 1]]

theGroups == (groupDev :> <<<<"alice">>>>)
theTagOwners == (tagA :> <<<<"alice">>>>)

\* the source lists of the rule under study
SrcLists ==
    {<<autogroupMember>>, <<autogroupSelf>>, <<<<"alice">>>>,
     <<autogroupMember, <<"alice">>>>, <<<<"alice">>, autogroupMember>>}

DstStrings == {<<"autogroup", "self", "*">>, <<"autogroup", "self", "22">>,
               <<"*", "*">>, <<"*", "22">>}

\* the destination lists of the rule under study: one destination, or two
\* different ones
DstLists == {d \in SeqsUpTo(DstStrings, 2) : Len(d) = 2 => d[1] # d[2]}

Protocols == {"", "icmp", "47"}

FocusACLs ==
    [Action : {"accept"}, Protocol : Protocols, Sources : SrcLists, Destinations : DstLists]
        \cup {[Action |-> "deny", Protocol |-> "", Sources |-> <<<<"*">>>>,
               Destinations |-> <<<<"*", "*">>>>]}

ContextACLs ==
    {[Action |-> "accept", Protocol |-> "", Sources |-> <<<<"*">>>>,
      Destinations |-> <<<<"*", "*">>>>],
     [Action |-> "accept", Protocol |-> "tcp", Sources |-> <<autogroupMember>>,
      Destinations |-> <<<<"autogroup", "self", "22">>, <<"*", "80">>>>]}

FilterPolicies ==
    {<<>>} \cup
    {Policy(theGroups, theTagOwners, NoMap, a, <<>>) :
        a \in RuleLists(FocusACLs, ContextACLs, MaxRules)}

\* the source lists of the SSH rule under study
SSHSrcLists ==
    {<<autogroupMember>>, <<autogroupSelf>>, <<groupDev>>,
     <<autogroupMember, groupDev>>, <<groupDev, autogroupSelf>>}

SSHDstAliases == {autogroupSelf, <<"alice">>, <<"bob">>}

\* the destination lists of the SSH rule under study: one destination, or
\* two different ones
SSHDstLists == {d \in SeqsUpTo(SSHDstAliases, 2) : Len(d) = 2 => d[1] # d[2]}

FocusSSHs ==
    {[Action |-> ac[1], CheckPeriod |-> ac[2], Sources |-> srcs, Destinations |-> dsts,
      Users |-> <<"root">>] :
        ac \in {<<"accept", "">>, <<"check", "12h">>, <<"check", "">>, <<"", "">>},
        srcs \in SSHSrcLists,
        dsts \in SSHDstLists}

ContextSSHs ==
    {[Action |-> "accept", CheckPeriod |-> "", Sources |-> <<<<"*">>>>,
      Destinations |-> <<<<"alice">>>>, Users |-> <<"root">>],
     [Action |-> "accept", CheckPeriod |-> "", Sources |-> <<autogroupMember>>,
      Destinations |-> <<autogroupSelf, <<"bob">>>>, Users |-> <<"root", "admin">>]}

SSHPolicies ==
    {<<>>} \cup
    {Policy(theGroups, theTagOwners, NoMap, <<>>, h) :
        h \in RuleLists(FocusSSHs, ContextSSHs, MaxRules)}

\* policies with access rules and SSH rules
BothPolicies ==
    {<<>>} \cup
    {Policy(theGroups, theTagOwners, NoMap, a, h) :
        a \in SeqsUpTo(ContextACLs, MaxRules), h \in SeqsUpTo(ContextSSHs, MaxRules)}

noNode == Node(1, alice, <<>>, <<>>)

\* the variables of the loops before an entry point has run
Idle ==
    /\ acls = <<>>
    /\ index = 0
    /\ rules = <<>>
    /\ sshs = <<>>
    /\ sshRules = <<>>
    /\ ret = noReturn

InitFilter ==
    /\ op = "CompileFilterRules"
    /\ pc = "filterStart"
    /\ pol \in FilterPolicies
    /\ nodes \in PlainFleets
    /\ node = noNode
    /\ peers = <<>>
    /\ alias = <<"">>
    /\ Idle

NextFilter == FilterBegin \/ FilterLoop \/ FilterReturn

\* CompileFilterRules on every policy of FilterPolicies and fleet of PlainFleets
SpecFilter == InitFilter /\ [][NextFilter]_vars

InitSSH ==
    /\ op = "CompileSSHPolicy"
    /\ pc = "sshStart"
    /\ pol \in SSHPolicies
    /\ \E fleet \in PlainFleets : \E r \in 1..Len(fleet) :
          /\ node = fleet[r]
          /\ peers = Without(fleet, r)
    /\ nodes = <<>>
    /\ alias = <<"">>
    /\ Idle

NextSSH == SSHBegin \/ SSHLoop \/ SSHReturn

\* CompileSSHPolicy on every policy of SSHPolicies, for every node of every
\* fleet of PlainFleets with the others as its peers
SpecSSH == InitSSH /\ [][NextSSH]_vars

\* policies for the aliases of users, groups and tags: every choice of
\* owners of the tags and of members of the group
TagPolicies ==
    {Policy(g, t, NoMap, <<>>, <<>>) :
        g \in {NoMap, (groupDev :> <<<<"alice">>>>), (groupDev :> <<<<"bob">>>>)},
        t \in {NoMap,
               (tagA :> <<<<"alice">>>>),
               (tagA :> <<<<"bob">>>>),
               (tagA :> <<groupDev>>),
               (tagA :> <<<<"alice">>>>) @@ (tagB :> <<<<"bob">>>>)}}

TagAliases == {<<"alice">>, tagA, tagB, groupDev}

\* policies for the aliases of hosts: a host; a host whose name is the
\* string of its own prefix; two hosts, each named as the prefix of the
\* other; a host whose prefix is the name of a second one
HostPolicies ==
    {Policy(NoMap, NoMap, h, <<>>, <<>>) :
        h \in {(<<"server">> :> [addr |-> 0, bits |-> AddrBits]),
               (<<PrefixString([addr |-> 0, bits |-> 1])>> :> [addr |-> 0, bits |-> 1]),
               (<<PrefixString([addr |-> 0, bits |-> 1])>> :> [addr |-> 0, bits |-> 0])
                   @@ (<<PrefixString([addr |-> 0, bits |-> 0])>> :> [addr |-> 0, bits |-> 1]),
               (<<"server">> :> [addr |-> 0, bits |-> 1])
                   @@ (<<PrefixString([addr |-> 0, bits |-> 1])>> :> [addr |-> 1, bits |-> AddrBits])}}

HostAliases == {<<"server">>, <<PrefixString([addr |-> 0, bits |-> 1])>>, <<AddrString(1)>>}

InitAlias ==
    /\ op = "ExpandAlias"
    /\ pc = "expand"
    /\ \/ pol \in TagPolicies /\ nodes \in TaggedFleets /\ alias \in TagAliases
       \/ pol \in HostPolicies /\ nodes \in PlainFleets /\ alias \in HostAliases
    /\ node = noNode
    /\ peers = <<>>
    /\ Idle

NextAlias == ExpandAliasCall

\* ExpandAlias on the policies, fleets and aliases of InitAlias
SpecAlias == InitAlias /\ [][NextAlias]_vars

\* a Hostinfo with routes
HostinfoRoutes(routableIPs) == <<[RequestTags |-> <<>>, RoutableIPs |-> routableIPs]>>

\* the upper half of the addresses, where no node lives
upperHalf == [addr |-> 2^(AddrBits - 1), bits |-> 1]

\* the recipients of ReduceFilterRules: without Hostinfo, without routes,
\* with a route, with two
ReduceNodes ==
    {Node(i, alice, h, <<>>) :
        i \in 1..MaxNodes,
        h \in {<<>>, Hostinfo(<<>>), HostinfoRoutes(<<upperHalf>>),
               HostinfoRoutes(<<[addr |-> 1, bits |-> AddrBits], upperHalf>>)}}

\* destination IP strings: all, the first two addresses as prefixes, the
\* upper half, the last address, and a string that is none of these
DstIPs ==
    {"*", PrefixString([addr |-> 0, bits |-> AddrBits]),
     PrefixString([addr |-> 1, bits |-> AddrBits]), PrefixString(upperHalf),
     AddrString(2^AddrBits - 1), "bogus"}

anyPort == [First |-> portRangeBegin, Last |-> portRangeEnd]

FocusRules ==
    [SrcIPs : {<<"*">>},
     DstPorts : SeqsUpTo([IP : DstIPs, Ports : {anyPort}], 2),
     IPProto : {<<>>, <<protocolTCP>>}]

ContextRules ==
    {[SrcIPs |-> <<PrefixString([addr |-> 0, bits |-> 1])>>,
      DstPorts |-> <<[IP |-> PrefixString([addr |-> 0, bits |-> AddrBits]),
                      Ports |-> [First |-> 22, Last |-> 22]]>>,
      IPProto |-> <<>>],
     [SrcIPs |-> <<"*">>,
      DstPorts |-> <<[IP |-> PrefixString([addr |-> 1, bits |-> AddrBits]),
                      Ports |-> anyPort],
                     [IP |-> "*", Ports |-> [First |-> 80, Last |-> 80]]>>,
      IPProto |-> <<protocolUDP>>]}

InitReduce ==
    /\ op = "ReduceFilterRules"
    /\ pc = "reduce"
    /\ pol = <<>>
    /\ nodes = <<>>
    /\ node \in ReduceNodes
    /\ peers = <<>>
    /\ alias = <<"">>
    /\ acls = <<>>
    /\ index = 0
    /\ rules \in {<<>>} \cup RuleLists(FocusRules, ContextRules, MaxRules)
    /\ sshs = <<>>
    /\ sshRules = <<>>
    /\ ret = noReturn

NextReduce == ReduceCall \/ ReduceAgain

\* ReduceFilterRules on every rule list and recipient of InitReduce, and
\* once more on what it returns
SpecReduce == InitReduce /\ [][NextReduce]_vars

\* access rules with autogroup:member more than once among the sources
MemberTwiceACLs ==
    [Action : {"accept"}, Protocol : {""},
     Sources : {<<autogroupMember, autogroupMember>>,
                <<autogroupMember, <<"alice">>, autogroupMember>>},
     Destinations : DstLists]

MemberTwicePolicies ==
    {Policy(theGroups, theTagOwners, NoMap, a, <<>>) :
        a \in RuleLists(MemberTwiceACLs, ContextACLs, MaxRules)}

InitMemberTwice ==
    /\ op = "CompileFilterRules"
    /\ pc = "filterStart"
    /\ pol \in MemberTwicePolicies
    /\ nodes \in PlainFleets
    /\ node = noNode
    /\ peers = <<>>
    /\ alias = <<"">>
    /\ Idle

InitLoops == InitFilter \/ InitMemberTwice \/ InitSSH

NextLoops ==
    \/ FilterBegin
    \/ FilterLoop
    \/ FilterReturn
    \/ SSHBegin
    \/ SSHLoop
    \/ SSHReturn

\* a call that has not returned goes on: it moves to its next position, or
\* its loop to the next index
Running ==
    /\ pc # "done"
    /\ pc' \in {"filter", "ssh", "done"}
    /\ index' \in {0, index + 1}

\* CompileFilterRules and CompileSSHPolicy, each on its policies and fleets;
\* a call that has begun is not left waiting for ever
SpecLoops == InitLoops /\ [][NextLoops]_vars /\ WF_<<pc, index>>(Running)

Init ==
    /\ \/ op = "CompileFilterRules" /\ pc = "filterStart"
       \/ op = "CompileSSHPolicy" /\ pc = "sshStart"
       \/ op = "GenerateFilterAndSSHRulesForTests" /\ pc = "generate"
    /\ pol \in BothPolicies
    /\ \E fleet \in PlainFleets : \E r \in 1..Len(fleet) :
          /\ node = fleet[r]
          /\ peers = Without(fleet, r)
          /\ nodes = fleet
    /\ alias = <<"">>
    /\ Idle

Next ==
    \/ GenerateBegin
    \/ FilterBegin
    \/ FilterLoop
    \/ FilterReturn
    \/ SSHBegin
    \/ SSHLoop
    \/ SSHReturn

\* the three entry points on every policy of BothPolicies
Spec == Init /\ [][Next]_vars

----------------------------------------------------------------------------
(* Properties of CompileFilterRules, checked under SpecFilter. *)

\* the rules of the policy as written
writtenACLs == IF pol = <<>> THEN <<>> ELSE pol[1].ACLs

\* CompileFilterRules has returned
filterDone == op = "CompileFilterRules" /\ pc = "done"

\* the port part of a destination string
portOf(dest) == <<dest[Len(dest)]>>

\* the protocol of the rule is one whose destinations must have port "*"
needsWildcard(acl) == acl.Protocol \notin {"", "tcp", "udp", "sctp", "6", "17", "132"}

\* a destination of the rule is autogroup:self and its sources are not
\* exactly one autogroup:member or autogroup:self
misusesSelf(acl) ==
    /\ \E i \in 1..Len(acl.Destinations) : HasPrefix(acl.Destinations[i], autogroupSelf)
    /\ ~(Len(acl.Sources) = 1 /\ acl.Sources[1] \in {autogroupMember, autogroupSelf})

\* the rule has a destination autogroup:self and another that is not
mixedDst(acl) ==
    /\ \E i \in 1..Len(acl.Destinations) : isSelfDst(acl.Destinations[i])
    /\ \E i \in 1..Len(acl.Destinations) : ~isSelfDst(acl.Destinations[i])

\* every rule of the policy is an accept rule
allAccept == \A i \in 1..Len(writtenACLs) : writtenACLs[i].Action = "accept"

\* C1: CompileFilterRules fails with the wildcard-required error on every
\* policy that has an accept rule whose protocol needs the wildcard port and
\* a destination with another port, whatever its sources and its other
\* destinations. Stated for the policies whose rules are all accept rules
\* and respect the prerequisite of autogroup:self, where no other error
\* comes first.
C1_WildcardIsNeeded ==
    (/\ filterDone
     /\ pol # <<>>
     /\ allAccept
     /\ \A i \in 1..Len(writtenACLs) : ~misusesSelf(writtenACLs[i])
     /\ \E i \in 1..Len(writtenACLs) :
           /\ needsWildcard(writtenACLs[i])
           /\ \E j \in 1..Len(writtenACLs[i].Destinations) :
                 portOf(writtenACLs[i].Destinations[j]) # <<"*">>)
        => (ret.err = ErrWildcardIsNeeded /\ ret.rules = <<>>)

\* C2: CompileFilterRules fails with ErrAutogroupSelf on every policy that
\* has an accept rule with a destination autogroup:self whose sources are
\* not exactly one autogroup:member or autogroup:self. Stated for the
\* policies whose rules are all accept rules and have no port that their
\* protocol forbids, where no other error comes first.
C2_AutogroupSelfSources ==
    (/\ filterDone
     /\ pol # <<>>
     /\ allAccept
     /\ \A i \in 1..Len(writtenACLs) :
           needsWildcard(writtenACLs[i]) =>
               \A j \in 1..Len(writtenACLs[i].Destinations) :
                   portOf(writtenACLs[i].Destinations[j]) = <<"*">>
     /\ \E i \in 1..Len(writtenACLs) : misusesSelf(writtenACLs[i]))
        => ret.err = ErrAutogroupSelf

\* the written rules that the split divides: a source autogroup:member and
\* both kinds of destination
splits == {i \in 1..Len(writtenACLs) :
              /\ \E k \in 1..Len(writtenACLs[i].Sources) :
                    HasPrefix(writtenACLs[i].Sources[k], autogroupMember)
              /\ mixedDst(writtenACLs[i])}

\* those whose only source is autogroup:member
splitting == {i \in splits : writtenACLs[i].Sources = <<autogroupMember>>}

\* the DstPorts of the destinations dsts of a rule, under a protocol
dstPortsOf(acl, dsts, protocol) ==
    destinationsLoop(pol, nodes, acl, dsts, parseProtocol(protocol).isWildcard).destPorts

\* C10: when CompileFilterRules succeeds, a rule with the one source
\* autogroup:member and both kinds of destination gives two filter rules:
\* the one at the rule's own place has the members as SrcIPs and the
\* DstPorts of the other destinations, and the synthesized one, after the
\* filter rules of all written rules and in the order of the splits, has
\* the node's own addresses as SrcIPs and the DstPorts of the
\* autogroup:self destinations; there is one filter rule per written rule
\* and one per split.
C10_SplitEmitsTwoRules ==
    (filterDone /\ pol # <<>> /\ ret.err = NoErr) =>
        /\ Len(ret.rules) = Len(writtenACLs) + Cardinality(splits)
        /\ \A i \in splitting :
              LET acl == writtenACLs[i]
                  k == Cardinality({j \in splits : j <= i})
                  own == ret.rules[i]
                  synthesized == ret.rules[Len(writtenACLs) + k]
              IN  /\ own.SrcIPs = expandSource(pol, autogroupMember, nodes).prefixes
                  /\ own.DstPorts =
                         dstPortsOf(acl, SelectSeq(acl.Destinations,
                                                   LAMBDA d : ~isSelfDst(d)), acl.Protocol)
                  /\ synthesized.SrcIPs = expandSource(pol, autogroupSelf, nodes).prefixes
                  /\ synthesized.DstPorts =
                         dstPortsOf([acl EXCEPT !.Sources = <<autogroupSelf>>],
                                    SelectSeq(acl.Destinations, isSelfDst), "")

\* CompileFilterRules has compiled a policy of two rules whose first is
\* split, into three filter rules
C10_SplitReached ==
    /\ filterDone
    /\ ret.err = NoErr
    /\ Len(writtenACLs) = 2
    /\ 1 \in splitting
    /\ Len(ret.rules) = 3
    /\ ret.rules[1].SrcIPs # ret.rules[3].SrcIPs

----------------------------------------------------------------------------
(* Properties of CompileSSHPolicy, checked under SpecSSH. *)

\* the SSH rules of the policy as written
writtenSSHs == IF pol = <<>> THEN <<>> ELSE pol[1].SSHs

\* CompileSSHPolicy has returned
sshDone == op = "CompileSSHPolicy" /\ pc = "done"

\* a step of the loop of CompileSSHPolicy appends an SSH rule
sshEmits == pc = "ssh" /\ Len(sshRules') = Len(sshRules) + 1

\* the SSH rule the step appends
emittedRule == sshRules'[Len(sshRules')]

\* an address of the recipient is in the expansion of a destination of dsts
coversNode(dsts) ==
    \E i \in 1..Len(dsts) :
        InIPSet(node, ExpandAlias(pol, Append(peers, node), dsts[i]).set)

\* the destinations of the rule expand without error
destinationsExpand(sshACL) ==
    /\ ~misusesSelf(sshACL)
    /\ \A i \in 1..Len(sshACL.Destinations) :
          ExpandAlias(pol, Append(peers, node), sshACL.Destinations[i]).err = NoErr

\* C3: every SSH rule that CompileSSHPolicy emits comes from a rule, written
\* or appended by the split, whose destinations expand to a set with an
\* address of the recipient; when no written rule covers the recipient, the
\* policy it returns has no rules.
C3_RulesOnlyForCoveredNode ==
    [][/\ sshEmits => coversNode(sshs[index + 1].Destinations)
       /\ (pc = "ssh" /\ pc' = "done" /\ ret'.err = NoErr
             /\ \A i \in 1..Len(writtenSSHs) : ~coversNode(writtenSSHs[i].Destinations))
            => ret'.ssh = <<[Rules |-> <<>>]>>]_vars

\* CompileSSHPolicy has returned one SSH rule for a policy of two rules, one
\* of which does not cover the recipient
C3_OneRuleSkipped ==
    /\ sshDone
    /\ ret.err = NoErr
    /\ Len(writtenSSHs) = 2
    /\ \E i \in 1..2 : ~coversNode(writtenSSHs[i].Destinations)
    /\ \E i \in 1..2 : coversNode(writtenSSHs[i].Destinations)
    /\ Len(ret.ssh[1].Rules) = 1

\* C4: a rule with the source autogroup:member, autogroup:self destinations
\* and other destinations gives an SSH rule only to a recipient that its
\* other destinations cover: a recipient that only autogroup:self covers
\* gets the rule the split appends and no rule with the members as
\* principals.
C4_MemberRuleOnlyForOtherDestinations ==
    [][(/\ sshEmits
        /\ sshs[index + 1].Sources = <<autogroupMember>>
        /\ mixedDst(sshs[index + 1]))
          => coversNode(SelectSeq(sshs[index + 1].Destinations,
                                  LAMBDA d : ~isSelfDst(d)))]_vars

\* the addresses of the nodes of the recipient's user, as principals
ownNodeIPs ==
    {AddrString(a) :
        a \in IPsOf(SelectSeq(Append(peers, node), LAMBDA n : n.User.ID = node.User.ID))}

\* the one source of the rule resolves as autogroup:self: written so, or
\* autogroup:member with autogroup:self destinations only
selfSourced(sshACL) ==
    \/ sshACL.Sources = <<autogroupSelf>>
    \/ /\ sshACL.Sources = <<autogroupMember>>
       /\ \A i \in 1..Len(sshACL.Destinations) : isSelfDst(sshACL.Destinations[i])

\* C5: the node-IP principals of an SSH rule whose source is
\* autogroup:self are addresses of nodes of the recipient's user, whoever
\* owns the peers and in whatever order they are.
C5_SelfPrincipalsAreOwnNodes ==
    [][(sshEmits /\ selfSourced(sshs[index + 1]))
          => \A k \in 1..Len(emittedRule.Principals) :
                 emittedRule.Principals[k].NodeIP \in ownNodeIPs]_vars

----------------------------------------------------------------------------
(* Properties of ExpandAlias, checked under SpecAlias. *)

\* ExpandAlias has returned
aliasDone == op = "ExpandAlias" /\ pc = "done"

\* the users that own a tag in the policy, the members of a group for a
\* group
ownersOf(tag) ==
    IF tag \notin DOMAIN pol[1].TagOwners THEN {}
    ELSE UNION {IF isGroup(o)
                THEN IF o \in DOMAIN pol[1].Groups THEN Range(pol[1].Groups[o]) ELSE {}
                ELSE {o} :
                o \in Range(pol[1].TagOwners[tag])}

\* the addresses of the nodes of the fleet that satisfy keep
addressesOf(keep(_)) == UNION {Range(nodes[i].IPs) : i \in {j \in 1..Len(nodes) : keep(nodes[j])}}

\* C7: ExpandAlias of a user's name gives the addresses of the user's nodes
\* that are not correctly tagged: those without a forced tag and without a
\* request tag that the policy gives the user. Stated for the fleets whose
\* nodes all have Hostinfo.
C7_UserAliasExcludesOwnTags ==
    (/\ aliasDone
     /\ alias \in {u.Name : u \in Users}
     /\ \A i \in 1..Len(nodes) : nodes[i].Hostinfo # <<>>)
        => /\ ret.err = NoErr
           /\ ret.set = addressesOf(LAMBDA n :
                            /\ n.User.Name = alias
                            /\ Len(n.ForcedTags) = 0
                            /\ \A t \in Range(RequestTags(n)) : alias \notin ownersOf(t))

\* C8: ExpandAlias of a tag, when it returns no error, gives the addresses
\* of the nodes that have the tag as a forced tag, or as a request tag while
\* their user is an owner of the tag, the members of an owning group
\* included; a node whose user does not own the request tag gives none.
C8_TagAliasNeedsOwner ==
    (aliasDone /\ isTag(alias) /\ ret.err = NoErr)
        => ret.set = addressesOf(LAMBDA n :
                         \/ alias \in Range(n.ForcedTags)
                         \/ /\ alias \in Range(RequestTags(n))
                            /\ n.User.Name \in ownersOf(alias))

\* ExpandAlias has expanded a tag that a group owns, for a fleet with a node
\* of a member of the group that requests the tag and a node of another
\* user that requests it too
C8_OwnedAndUnownedReached ==
    /\ aliasDone
    /\ isTag(alias)
    /\ ret.err = NoErr
    /\ alias \in DOMAIN pol[1].TagOwners
    /\ \E o \in Range(pol[1].TagOwners[alias]) : isGroup(o)
    /\ \E i, j \in 1..Len(nodes) :
          /\ alias \in Range(RequestTags(nodes[i]))
          /\ nodes[i].User.Name \in ownersOf(alias)
          /\ Len(nodes[j].ForcedTags) = 0
          /\ alias \in Range(RequestTags(nodes[j]))
          /\ nodes[j].User.Name \notin ownersOf(alias)
          /\ Range(nodes[i].IPs) \subseteq ret.set
          /\ Range(nodes[j].IPs) \cap ret.set = {}

----------------------------------------------------------------------------
(* Properties of the entry points together, checked under Spec. *)

\* C9: without a policy, CompileFilterRules returns FilterAllowAll and no
\* error for every fleet, and GenerateFilterAndSSHRulesForTests returns
\* FilterAllowAll, an SSH policy without rules and no error for every node
\* and peers.
C9_NilPolicyAllowsAll ==
    (pc = "done" /\ pol = <<>>) =>
        /\ op = "CompileFilterRules" =>
              ret.rules = FilterAllowAll /\ ret.err = NoErr
        /\ op = "GenerateFilterAndSSHRulesForTests" =>
              /\ ret.rules = FilterAllowAll
              /\ ret.ssh = <<[Rules |-> <<>>]>>
              /\ ret.err = NoErr

\* GenerateFilterAndSSHRulesForTests has returned for a nil policy and a
\* node with a peer
C9_NilPolicyReached ==
    /\ pc = "done"
    /\ pol = <<>>
    /\ op = "GenerateFilterAndSSHRulesForTests"
    /\ Len(peers) > 0
    /\ ret.rules # <<>>

----------------------------------------------------------------------------
(* Properties of ReduceFilterRules, checked under SpecReduce. *)

\* the destination's IP string parses to a set that holds an address of the
\* node or meets one of its routes
relevantToNode(dest) ==
    \E parsed \in {ParseIPSet(dest.IP)} :
        /\ parsed.err = NoErr
        /\ \/ Range(node.IPs) \cap parsed.set # {}
           \/ /\ node.Hostinfo # <<>>
              /\ \E r \in Range(node.Hostinfo[1].RoutableIPs) :
                    PrefixRange(r) \cap parsed.set # {}

\* C11: ReduceFilterRules returns the rules in their order, each with the
\* destinations, in their order, whose IP string parses to a set that holds
\* an address of the node or meets a route of the node, with SrcIPs and
\* IPProto as they were; a rule left without destination is left out, and a
\* destination whose IP string does not parse is not kept.
C11_ReduceKeepsRelevantDestinations ==
    (op = "ReduceFilterRules" /\ pc = "reduced") =>
        /\ ret.rules =
               SelectSeq([i \in 1..Len(rules) |->
                             [SrcIPs |-> rules[i].SrcIPs,
                              DstPorts |-> SelectSeq(rules[i].DstPorts, relevantToNode),
                              IPProto |-> rules[i].IPProto]],
                         LAMBDA r : r.DstPorts # <<>>)
        /\ \A i \in 1..Len(ret.rules) : \A j \in 1..Len(ret.rules[i].DstPorts) :
              ParseIPSet(ret.rules[i].DstPorts[j].IP).err = NoErr

\* ReduceFilterRules has left out one of two rules, and has kept of the
\* other a destination only for a route of the node and dropped one that
\* does not parse
C11_ReduceReached ==
    /\ op = "ReduceFilterRules"
    /\ pc = "reduced"
    /\ Len(rules) = 2
    /\ Len(ret.rules) = 1
    /\ \E i \in 1..2 :
          /\ Len(rules[i].DstPorts) = 2
          /\ \E j \in 1..2 : rules[i].DstPorts[j].IP = "bogus"
          /\ ret.rules[1].SrcIPs = rules[i].SrcIPs
          /\ Len(ret.rules[1].DstPorts) = 1
          /\ ~InIPSet(node, ParseIPSet(ret.rules[1].DstPorts[1].IP).set)

\* C12: ReduceFilterRules of what ReduceFilterRules returned, for the same
\* node, returns the same rules.
C12_ReduceIdempotent ==
    (op = "ReduceFilterRules" /\ pc = "done") => ret.rules = rules

\* ReduceFilterRules has been given its own result for a node with
\* Hostinfo: two rules, the second with two destinations
C12_ReducedTwice ==
    /\ op = "ReduceFilterRules"
    /\ pc = "done"
    /\ Len(rules) = 2
    /\ Len(rules[2].DstPorts) = 2
    /\ node.Hostinfo # <<>>
    /\ ret.rules # <<>>

----------------------------------------------------------------------------
(* Termination of ExpandAlias, checked under SpecAlias. *)

\* C13: ExpandAlias returns, with a set or an error, for every alias and
\* every hosts map: a host name that resolves through host entries back to
\* itself does not make it recurse without end. (StackOverflow is what a
\* recursion that is back at a host entry it has expanded ends in.)
C13_ExpandAliasReturns ==
    aliasDone => ret.err # StackOverflow

----------------------------------------------------------------------------
(* Termination of the loops over the growing lists, checked under          *)
(* SpecLoops.                                                              *)

\* the smaller of two numbers
Min(a, b) == IF a <= b THEN a ELSE b

\* the working list of the loop that runs, and the list as written
workList == IF op = "CompileFilterRules" THEN acls ELSE sshs
writtenList == IF op = "CompileFilterRules" THEN writtenACLs ELSE writtenSSHs

\* the loop is running, or has ended
inLoop == pc \in {"filter", "ssh"}

\* C14: the loops of CompileFilterRules and CompileSSHPolicy end.  The
\* working list has the written rules and at most one appended rule for each
\* written rule the loop has been at, so at most twice the written rules;
\* an appended rule has the one source autogroup:self and appends nothing;
\* every step leaves the loop or moves the index up by one, and the index
\* is never beyond the list; when the loop ends without error it has been
\* at every rule of the list, the appended ones included, once; and every
\* call returns.
C14_LoopsTerminate ==
    /\ [](inLoop =>
             /\ index <= Len(workList)
             /\ Len(workList) <= Len(writtenList) + Min(index, Len(writtenList))
             /\ Len(workList) <= 2 * Len(writtenList)
             /\ \A i \in (Len(writtenList) + 1)..Len(workList) :
                   workList[i].Sources = <<autogroupSelf>>
             /\ op = "CompileFilterRules" => Len(rules) = index
             /\ op = "CompileSSHPolicy" => Len(sshRules) <= index)
    /\ []((pc = "done" /\ pol # <<>> /\ ret.err = NoErr) =>
             /\ index = Len(workList)
             /\ op = "CompileFilterRules" => Len(ret.rules) = Len(workList))
    /\ [][/\ pc # "done"
          /\ pc' # pc \/ index' = index + 1
          /\ (inLoop /\ pc' = pc) =>
                /\ Len(workList') \in {Len(workList), Len(workList) + 1}
                /\ SubSeq(workList', 1, Len(workList)) = workList]_vars
    /\ <>(pc = "done")

\* a loop has ended without error after it has been at two written rules,
\* one of them with autogroup:member twice among its sources, and at the two
\* rules they appended
C14_AppendedRulesProcessed ==
    /\ pc = "done"
    /\ ret.err = NoErr
    /\ Len(writtenList) = 2
    /\ Len(workList) = 4
    /\ index = 4
    /\ \E i \in 1..2 :
          Cardinality({j \in 1..Len(workList[i].Sources) :
                          workList[i].Sources[j] = autogroupMember}) = 2

----------------------------------------------------------------------------
(* The protocol of a split rule, checked under SpecFilter.                 *)

\* C15: when CompileFilterRules succeeds, the filter rule of the rule that
\* a split has appended has the IPProto of the filter rule of the rule it
\* was split from: the protocol of an access rule holds for its
\* autogroup:self destinations too.
C15_SplitKeepsProtocol ==
    (filterDone /\ pol # <<>> /\ ret.err = NoErr) =>
        \A i \in splits :
            LET k == Cardinality({j \in splits : j <= i})
            IN  ret.rules[Len(writtenACLs) + k].IPProto = ret.rules[i].IPProto

====
